---- MODULE Spec2Model ----
(***************************************************************************)
(* A model of the areole command-language front end: the logos lexer of    *)
(* src/src/token.rs and the recursive-descent parser of src/src/ast.rs.    *)
(*                                                                         *)
(* A source text is a sequence of characters (one-character strings; the   *)
(* two-byte section sign is the atom SECT).  Lex turns it into the items   *)
(* TokenIter yields, and every X::parse of ast.rs is an operator X_parse   *)
(* over (toks, pos): the Peekable<TokenIter> is the item sequence toks and *)
(* the index pos of the item peek() would return.                          *)
(*                                                                         *)
(* Options are sequences of length 0 (None) or 1 (Some).                   *)
(***************************************************************************)
EXTENDS Integers, Sequences, FiniteSets, TLC

VARIABLES
    entry,   \* the production this run calls on the token stream
    src,     \* the source text typed so far, a sequence of words
    takesEmpty, \* whether the lexer of the build takes the empty pattern
    tokens,  \* the items TokenIter yields for that text
    out      \* None, or Some(result of the call)

vars == <<entry, takesEmpty, src, tokens, out>>

None == <<>>
Some(x) == <<x>>
IsSome(o) == Len(o) = 1
IsNone(o) == Len(o) = 0

Max(a, b) == IF a >= b THEN a ELSE b

-----------------------------------------------------------------------------
(* Characters                                                              *)

NL == "\n"
SECT == "SECT"
Digits == {"0", "1", "2", "3", "4", "5", "6", "7", "8", "9"}
Lower == {"a", "b", "c", "d", "e", "f", "g", "h", "i", "j", "k", "l", "m",
          "n", "o", "p", "q", "r", "s", "t", "u", "v", "w", "x", "y", "z"}
Upper == {"A", "B", "C", "D", "E", "F", "G", "H", "I", "J", "K", "L", "M",
          "N", "O", "P", "Q", "R", "S", "T", "U", "V", "W", "X", "Y", "Z"}
\* #[logos(skip r"[ \t\r]+")]
SkipClass == {" ", "\t", "\r"}
\* [a-z_.A-Z0-9]
IdentClass == Lower \cup Upper \cup Digits \cup {"_", "."}
\* [a-z_:.A-Z0-9]
PathHeadClass == IdentClass \cup {":"}
\* [a-z_:.A-Z0-9/]
PathTailClass == PathHeadClass \cup {"/"}

\* The characters of the model are the ASCII characters and the ones below.
\* A character a string of this module cannot hold is the atom made of "U+"
\* and its code point; the section sign is also the atom SECT.
SectionSign == {SECT, "§"}
\* U+0080 to U+00FF: two UTF-8 bytes each.
TwoByte ==
    { "", "", "", "", "", "", "", "", "", "", "", "",
      "", "", "", "", "", "", "", "", "", "", "", "",
      "", "", "", "", "", "", "", "", " ", "¡", "¢", "£",
      "¤", "¥", "¦", "§", "¨", "©", "ª", "«", "¬", "­", "®", "¯",
      "°", "±", "²", "³", "´", "µ", "¶", "·", "¸", "¹", "º", "»",
      "¼", "½", "¾", "¿", "À", "Á", "Â", "Ã", "Ä", "Å", "Æ", "Ç",
      "È", "É", "Ê", "Ë", "Ì", "Í", "Î", "Ï", "Ð", "Ñ", "Ò", "Ó",
      "Ô", "Õ", "Ö", "×", "Ø", "Ù", "Ú", "Û", "Ü", "Ý", "Þ", "ß",
      "à", "á", "â", "ã", "ä", "å", "æ", "ç", "è", "é", "ê", "ë",
      "ì", "í", "î", "ï", "ð", "ñ", "ò", "ó", "ô", "õ", "ö", "÷",
      "ø", "ù", "ú", "û", "ü", "ý", "þ", "ÿ",
      SECT }
\* Three UTF-8 bytes each.
ThreeByte ==
    { "€", "→", " ",
      "U+2000", "U+2001", "U+2002", "U+2003", "U+2004", "U+2005", "U+2006", "U+2007",
      "U+2008", "U+2009", "U+200A", "U+2028", "U+2029", "U+202F", "U+205F", "U+3000" }
\* Four UTF-8 bytes each.
FourByte == {"U+1F600", "U+10348"}
\* char::is_whitespace, the characters str::trim removes: U+0009 to U+000D,
\* U+0020, U+0085, U+00A0, U+1680, U+2000 to U+200A, U+2028, U+2029,
\* U+202F, U+205F and U+3000.
WhiteSpace ==
    { "\t", "\n", "", "\f", "\r", " ", "", " ", " ",
      "U+2000", "U+2001", "U+2002", "U+2003", "U+2004", "U+2005", "U+2006", "U+2007",
      "U+2008", "U+2009", "U+200A", "U+2028", "U+2029", "U+202F", "U+205F", "U+3000" }

\* The UTF-8 width of a character (char::len_utf8): spans are byte offsets.
Width(c) ==
    IF c \in TwoByte THEN 2
    ELSE IF c \in ThreeByte THEN 3
    ELSE IF c \in FourByte THEN 4
    ELSE 1

RECURSIVE ByteOff(_, _)
\* The byte offset at which the i-th character of s starts.
ByteOff(s, i) == IF i <= 1 THEN 0 ELSE ByteOff(s, i - 1) + Width(s[i - 1])

Span_new(start, end) == [start |-> start, end |-> end]

RECURSIVE Run(_, _, _)
\* The number of consecutive characters of s from index i that are in class.
Run(s, i, class) ==
    IF i > Len(s) \/ s[i] \notin class THEN 0 ELSE 1 + Run(s, i + 1, class)

RECURSIVE RunNot(_, _, _)
\* The number of consecutive characters of s from index i that are not c.
RunNot(s, i, c) ==
    IF i > Len(s) \/ s[i] = c THEN 0 ELSE 1 + RunNot(s, i + 1, c)

\* Whether the characters of lit stand in s at index i.
At(s, i, lit) ==
    /\ i + Len(lit) - 1 <= Len(s)
    /\ \A k \in 1..Len(lit) : s[i + k - 1] = lit[k]

-----------------------------------------------------------------------------
(* The token patterns of Kind: each gives the length of its longest match  *)
(* at index i of s, 0 when it does not match there.                        *)

\* "§."
MatchFormatSelection(s, i) ==
    IF s[i] \in SectionSign /\ i + 1 <= Len(s) /\ s[i + 1] # NL THEN 2 ELSE 0

\* -?[0-9]*\.[0-9]+
MatchFloat(s, i) ==
    LET sign == IF s[i] = "-" THEN 1 ELSE 0
        int  == Run(s, i + sign, Digits)
        dot  == i + sign + int
        frac == IF dot <= Len(s) /\ s[dot] = "." THEN Run(s, dot + 1, Digits) ELSE 0
    IN  IF frac > 0 THEN sign + int + 1 + frac ELSE 0

\* -?[0-9]+
MatchInt(s, i) ==
    LET sign == IF s[i] = "-" THEN 1 ELSE 0
        int  == Run(s, i + sign, Digits)
    IN  IF int > 0 THEN sign + int ELSE 0

\* "[^"]+"
MatchString(s, i) ==
    LET body == RunNot(s, i + 1, "\"")
    IN  IF s[i] = "\"" /\ body > 0 /\ i + 1 + body <= Len(s)
        THEN body + 2 ELSE 0

\* [a-z_.A-Z0-9]+
MatchIdent(s, i) == Run(s, i, IdentClass)

\* [a-z_:.A-Z0-9]+/[a-z_:.A-Z0-9/]+
MatchPath(s, i) ==
    LET head  == Run(s, i, PathHeadClass)
        slash == i + head
        tail  == IF head > 0 /\ slash <= Len(s) /\ s[slash] = "/"
                 THEN Run(s, slash + 1, PathTailClass) ELSE 0
    IN  IF tail > 0 THEN head + 1 + tail ELSE 0

\* (true)|(false)
MatchBool(s, i) ==
    IF At(s, i, <<"t", "r", "u", "e">>) THEN 4
    ELSE IF At(s, i, <<"f", "a", "l", "s", "e">>) THEN 5 ELSE 0

\* #[^\n]+
MatchComment(s, i) ==
    LET body == RunNot(s, i + 1, NL)
    IN  IF s[i] = "#" /\ body > 0 THEN body + 1 ELSE 0

\* The #[token(..)] patterns and the one-character #[regex("@")].
Punctuation ==
    { [kind |-> "Slash",              lit |-> <<"/">>],
      [kind |-> "RightBrace",         lit |-> <<"}">>],
      [kind |-> "LeftBrace",          lit |-> <<"{">>],
      [kind |-> "LeftBracket",        lit |-> <<"[">>],
      [kind |-> "RightBracket",       lit |-> <<"]">>],
      [kind |-> "Selector",           lit |-> <<"@">>],
      [kind |-> "Comma",              lit |-> <<",">>],
      [kind |-> "Neg",                lit |-> <<"-">>],
      [kind |-> "Not",                lit |-> <<"!">>],
      [kind |-> "Limit",              lit |-> <<".", ".">>],
      [kind |-> "Assign",             lit |-> <<"=">>],
      [kind |-> "Equal",              lit |-> <<"<", ">">>],
      [kind |-> "AddAssign",          lit |-> <<"+", "=">>],
      [kind |-> "SubAssign",          lit |-> <<"-", "=">>],
      [kind |-> "MulAssign",          lit |-> <<"*", "=">>],
      [kind |-> "DivAssign",          lit |-> <<"/", "=">>],
      [kind |-> "Gt",                 lit |-> <<">">>],
      [kind |-> "Lt",                 lit |-> <<"<">>],
      [kind |-> "Wildcard",           lit |-> <<"*">>],
      [kind |-> "RelativeCoordinate", lit |-> <<"~">>],
      [kind |-> "LocalCoordinate",    lit |-> <<"^">>],
      [kind |-> "LineBreak",          lit |-> <<NL>>],
      [kind |-> "Colon",              lit |-> <<":">>] }

\* The priority logos gives a pattern: the explicit one, else 2 for each
\* literal character and 1 for a character class.
PrioFloat == 3
PrioInt == 3
PrioPath == 1
PrioLit(lit) == 2 * Len(lit)
PrioClass == 1
\* #[regex("", priority = 1)]
PrioEmpty == 1

\* Every pattern that matches at index i, with the length of its match;
\* the empty pattern declared on RightBrace matches everywhere, with length 0.
Matches(s, i) ==
    { m \in
        { [kind |-> "FormatSelection", len |-> MatchFormatSelection(s, i), prio |-> PrioLit(<<SECT>>) + PrioClass],
          [kind |-> "Float",   len |-> MatchFloat(s, i),   prio |-> PrioFloat],
          [kind |-> "Int",     len |-> MatchInt(s, i),     prio |-> PrioInt],
          [kind |-> "String",  len |-> MatchString(s, i),  prio |-> PrioLit(<<"\"", "\"">>) + PrioClass],
          [kind |-> "Ident",   len |-> MatchIdent(s, i),   prio |-> PrioClass],
          [kind |-> "Path",    len |-> MatchPath(s, i),    prio |-> PrioPath],
          [kind |-> "Bool",    len |-> MatchBool(s, i),    prio |-> PrioLit(<<"t", "r", "u", "e">>)],
          [kind |-> "Comment", len |-> MatchComment(s, i), prio |-> PrioLit(<<"#">>) + PrioClass] }
        \cup
        { [kind |-> p.kind, len |-> IF At(s, i, p.lit) THEN Len(p.lit) ELSE 0,
           prio |-> PrioLit(p.lit)] : p \in Punctuation } :
      m.len > 0 }
    \cup { [kind |-> "RightBrace", len |-> 0, prio |-> PrioEmpty] }

\* logos takes the longest match, and among matches of one length the
\* pattern of highest priority.
Better(a, b) == a.len > b.len \/ (a.len = b.len /\ a.prio > b.prio)

BestMatch(s, i) ==
    LET ms == Matches(s, i)
    IN  IF ms = {} THEN None
        ELSE Some(CHOOSE m \in ms : \A o \in ms : o = m \/ Better(m, o))

-----------------------------------------------------------------------------
(* Token values                                                            *)

DigitVal(c) ==
    CASE c = "0" -> 0 [] c = "1" -> 1 [] c = "2" -> 2 [] c = "3" -> 3
      [] c = "4" -> 4 [] c = "5" -> 5 [] c = "6" -> 6 [] c = "7" -> 7
      [] c = "8" -> 8 [] c = "9" -> 9

I32Max == 2147483647
I32Min == -I32Max - 1

RECURSIVE Accumulate(_, _, _)
\* i32::from_str over the digits ds: the value so far is acc, built upwards
\* for a positive numeral and downwards for a negative one, and None once a
\* step leaves the range of i32.
Accumulate(ds, acc, neg) ==
    IF ds = <<>> THEN Some(acc)
    ELSE LET d == DigitVal(Head(ds))
         IN  IF neg
             THEN IF acc = I32Min \/ -acc > (I32Max - Max(d - 1, 0)) \div 10
                  THEN None
                  ELSE Accumulate(Tail(ds), acc * 10 - d, neg)
             ELSE IF acc > (I32Max - d) \div 10
                  THEN None
                  ELSE Accumulate(Tail(ds), acc * 10 + d, neg)

\* lex.slice().parse::<i32>() of a match of -?[0-9]+: None on overflow.
ParseI32(text) ==
    IF text[1] = "-" THEN Accumulate(Tail(text), 0, TRUE)
    ELSE Accumulate(text, 0, FALSE)

RECURSIVE TrimStart(_, _)
TrimStart(t, class) ==
    IF t # <<>> /\ t[1] \in class THEN TrimStart(Tail(t), class) ELSE t

RECURSIVE TrimEnd(_, _)
TrimEnd(t, class) ==
    IF t # <<>> /\ t[Len(t)] \in class
    THEN TrimEnd(SubSeq(t, 1, Len(t) - 1), class) ELSE t

\* lex.slice().trim_start_matches("#").trim()
CommentText(slice) ==
    TrimEnd(TrimStart(TrimStart(slice, {"#"}), WhiteSpace), WhiteSpace)

Token_new(kind, text, num, span) ==
    [kind |-> kind, text |-> text, num |-> num, span |-> span]

LexError_new(err, span) == [err |-> err, span |-> span]

\* The Result<Kind, LexErrorItem> logos yields for a match, wrapped by
\* TokenIter::next into Ok(Token) or Err(LexError), both with the span.
TokenIter_next(s, i, m) ==
    LET slice == SubSeq(s, i, i + m.len - 1)
        span  == Span_new(ByteOff(s, i), ByteOff(s, i + m.len))
    IN  CASE m.kind = "Int" ->
               IF IsSome(ParseI32(slice))
               THEN [ok |-> TRUE, tok |-> Token_new("Int", slice, ParseI32(slice)[1], span)]
               ELSE [ok |-> FALSE, err |-> LexError_new("InvalidInt", span)]
          [] m.kind = "Comment" ->
               [ok |-> TRUE, tok |-> Token_new("Comment", CommentText(slice), 0, span)]
          [] OTHER ->
               [ok |-> TRUE, tok |-> Token_new(m.kind, slice, 0, span)]

RECURSIVE LexFrom(_, _)
\* The items the lexer yields from index i of s on: whitespace is skipped
\* and the best match becomes a token. Where only the empty pattern matches,
\* a lexer that does not take it yields an error of kind Unknown with the
\* span of the character there and goes on after it; a lexer that takes it
\* yields a RightBrace of empty span and stays where it is.
LexFrom(s, i) ==
    LET j == i + Run(s, i, SkipClass)
    IN  IF j > Len(s) THEN <<>>
        ELSE LET m == BestMatch(s, j)
             IN  IF m[1].len > 0
                 THEN << TokenIter_next(s, j, m[1]) >> \o LexFrom(s, j + m[1].len)
                 ELSE IF takesEmpty
                 THEN << TokenIter_next(s, j, m[1]) >>
                 ELSE << [ok |-> FALSE,
                          err |-> LexError_new("Unknown",
                                    Span_new(ByteOff(s, j), ByteOff(s, j + 1)))] >>
                      \o LexFrom(s, j + 1)

\* Whether the lexer that yielded items stays at its last place: its last
\* item is a token of empty span, which it yields again for ever.
Stays(items) ==
    /\ items # <<>>
    /\ items[Len(items)].ok
    /\ items[Len(items)].tok.span.start = items[Len(items)].tok.span.end

\* How many of the items are tokens of the given kind.
CountKind(items, kind) ==
    Cardinality({i \in 1..Len(items) : items[i].ok /\ items[i].tok.kind = kind})

\* A stream that ends with one item for ever is held as that item followed
\* by more copies of it than a parse can take: a RightBrace is taken only to
\* close a map, one for each LeftBrace before it, and the next one is
\* looked at and left or rejected.
Unending(items) ==
    items \o [k \in 1..(CountKind(items, "LeftBrace") + 1) |-> items[Len(items)]]

Lex(s) ==
    LET items == LexFrom(s, 1)
    IN  IF Stays(items) THEN Unending(items) ELSE items

-----------------------------------------------------------------------------
(* The parse results of src/src/parser.rs and the token stream             *)

\* ParseError
Eof == [type |-> "Eof"]
InvalidToken(tok) == [type |-> "InvalidToken", tok |-> tok]
LexError(e) == [type |-> "LexError", err |-> e]

\* ParseResult<T>, with the stream position the call leaves behind.
Ok(v, pos) == [ok |-> TRUE, val |-> v, pos |-> pos]
Err(e, pos) == [ok |-> FALSE, err |-> e, pos |-> pos]

\* Peekable::peek
Peek(toks, pos) == IF pos <= Len(toks) THEN Some(toks[pos]) ELSE None

\* Whether peek() is Some(Ok(token of one of the kinds)).
PeekIs(toks, pos, kinds) ==
    /\ pos <= Len(toks)
    /\ toks[pos].ok
    /\ toks[pos].tok.kind \in kinds

\* Ident::parse, Lit*::parse, StmtComment::parse and the first arm of
\* extract_token! share one shape: next(), then a match on the kind.
NextOfKind(toks, pos, kinds) ==
    IF pos > Len(toks) THEN Err(Eof, pos)
    ELSE IF ~toks[pos].ok THEN Err(LexError(toks[pos].err), pos + 1)
    ELSE IF toks[pos].tok.kind \in kinds THEN Ok(toks[pos].tok, pos + 1)
    ELSE Err(InvalidToken(toks[pos].tok), pos + 1)

\* extract_token!(tokens, Kind::A | Kind::B)
extract_token(toks, pos, kinds) == NextOfKind(toks, pos, kinds)

\* extract_token!(tokens, Option<Kind::A>): the token when it is next, None
\* (and nothing consumed) for any other lookahead, a lex error included.
extract_token_opt(toks, pos, kind) ==
    IF ~PeekIs(toks, pos, {kind}) THEN Ok(None, pos)
    ELSE Ok(Some(toks[pos].tok), pos + 1)

\* The `?` of Rust: the failure r as it is, else the rest of the procedure
\* applied to the success r.
Try(r, Rest(_)) == IF r.ok THEN Rest(r) ELSE r

-----------------------------------------------------------------------------
(* Leaf nodes                                                              *)

Ident_new(value, span) == [value |-> value, span |-> span]

Ident_parse(toks, pos) ==
    Try(NextOfKind(toks, pos, {"Ident"}),
        LAMBDA t : Ok(Ident_new(t.val.text, t.val.span), t.pos))

LitInt_parse(toks, pos) ==
    Try(NextOfKind(toks, pos, {"Int"}),
        LAMBDA t : Ok([value |-> t.val.num, span |-> t.val.span], t.pos))

\* LitFloat, LitString, LitBool, LitPath: the value is the token's text.
LitText_parse(toks, pos, kind) ==
    Try(NextOfKind(toks, pos, {kind}),
        LAMBDA t : Ok([value |-> t.val.text, span |-> t.val.span], t.pos))

LitFloat_parse(toks, pos) == LitText_parse(toks, pos, "Float")
LitString_parse(toks, pos) == LitText_parse(toks, pos, "String")
LitBool_parse(toks, pos) == LitText_parse(toks, pos, "Bool")
LitPath_parse(toks, pos) == LitText_parse(toks, pos, "Path")

StmtComment_parse(toks, pos) == LitText_parse(toks, pos, "Comment")

\* enum Lit: the variant and its payload.
Lit_new(variant, inner) == [lit |-> variant, inner |-> inner]

\* The match on the kind of Lit::parse, entered with peek() = Some(Ok(_)).
Lit_variant(toks, pos, kind) ==
    CASE kind = "Float"  -> LitFloat_parse(toks, pos)
      [] kind = "Int"    -> LitInt_parse(toks, pos)
      [] kind = "String" -> LitString_parse(toks, pos)
      [] kind = "Path"   -> LitPath_parse(toks, pos)
      [] kind = "Bool"   -> LitBool_parse(toks, pos)
      [] OTHER           -> Err(InvalidToken(toks[pos].tok), pos)

Lit_parse(toks, pos) ==
    IF pos > Len(toks) THEN Err(Eof, pos)
    ELSE IF ~toks[pos].ok THEN Err(LexError(toks[pos].err), pos)
    ELSE Try(Lit_variant(toks, pos, toks[pos].tok.kind),
             LAMBDA l : Ok(Lit_new(toks[pos].tok.kind, l.val), l.pos))

Lit_span(l) == l.inner.span

-----------------------------------------------------------------------------
(* Expressions                                                             *)

RECURSIVE Expr_parse(_, _)
RECURSIVE ExprUrnary_parse(_, _)
RECURSIVE ExprTarget_parse(_, _)
RECURSIVE ExprMap_parse(_, _)
RECURSIVE ExprMap_fields(_, _, _)
RECURSIVE ExprMapField_parse(_, _)
RECURSIVE Table_parse(_, _)
RECURSIVE Table_fields(_, _, _)
RECURSIVE TableField_parse(_, _)
RECURSIVE Expr_span(_)
RECURSIVE ExprUrnary_span(_)
RECURSIVE ExprMapField_span(_)

\* enum Expr: the variant and its payload.
Expr_new(variant, inner) == [expr |-> variant, inner |-> inner]

ExprRange_new(start, limit, end) == [start |-> start, limit |-> limit, end |-> end]

ExprRange_span(r) ==
    Span_new(IF IsSome(r.start) THEN r.start[1].span.start ELSE r.limit.span.start,
             IF IsSome(r.end) THEN r.end[1].span.end ELSE r.limit.span.end)

\* The inner fn of ExprRange::parse.
parse_opt_int(toks, pos) ==
    IF pos > Len(toks) THEN Err(Eof, pos)
    ELSE IF ~toks[pos].ok THEN Err(LexError(toks[pos].err), pos)
    ELSE IF toks[pos].tok.kind = "Int"
         THEN Try(LitInt_parse(toks, pos), LAMBDA i : Ok(Some(i.val), i.pos))
    ELSE Ok(None, pos)

ExprRange_parse(toks, pos) ==
    Try(parse_opt_int(toks, pos), LAMBDA start :
    Try(extract_token(toks, start.pos, {"Limit"}), LAMBDA limit :
    Try(parse_opt_int(toks, limit.pos), LAMBDA end :
    Ok(ExprRange_new(start.val, limit.val, end.val), end.pos))))

\* enum UnOp: the variant and the operator's token.
UnOp_new(variant, token) == [op |-> variant, token |-> token]
UnOp_span(op) == op.token.span

ExprUrnary_new(op, expr) == [op |-> op, expr |-> expr]

ExprUrnary_span(u) ==
    Span_new(UnOp_span(u.op).start,
             IF IsSome(u.expr) THEN Expr_span(u.expr[1]).end ELSE UnOp_span(u.op).end)

\* The operator kinds ExprUrnary::parse matches; each maps to the UnOp
\* variant of the same name.
UnOpKinds == {"Not", "LocalCoordinate", "RelativeCoordinate", "FormatSelection"}

\* ExprUrnary::parse, were it to take an operator at the end of the stream as
\* a bare flag instead of propagating the end of input.
ExprUrnary_parse_BareFlag(toks, pos) ==
    Try(NextOfKind(toks, pos, UnOpKinds), LAMBDA op :
    IF op.pos > Len(toks)
    THEN Ok(ExprUrnary_new(UnOp_new(op.val.kind, op.val), None), op.pos)
    ELSE Try(Expr_parse(toks, op.pos), LAMBDA expr :
         Ok(ExprUrnary_new(UnOp_new(op.val.kind, op.val), Some(expr.val)), expr.pos)))

\* ExprUrnary::parse, were it to take an operator before a comma as a bare
\* flag, as the table field does for `!`.
ExprUrnary_parse_FlagBeforeComma(toks, pos) ==
    Try(NextOfKind(toks, pos, UnOpKinds), LAMBDA op :
    IF PeekIs(toks, op.pos, {"Comma"})
    THEN Ok(ExprUrnary_new(UnOp_new(op.val.kind, op.val), None), op.pos)
    ELSE Try(Expr_parse(toks, op.pos), LAMBDA expr :
         Ok(ExprUrnary_new(UnOp_new(op.val.kind, op.val), Some(expr.val)), expr.pos)))

ExprUrnary_parse(toks, pos) ==
    Try(NextOfKind(toks, pos, UnOpKinds), LAMBDA op :
    Try(Expr_parse(toks, op.pos), LAMBDA expr :
    Ok(ExprUrnary_new(UnOp_new(op.val.kind, op.val), Some(expr.val)), expr.pos)))

-----------------------------------------------------------------------------
(* Tables                                                                  *)

TableField_new(key, assign, value, comma) ==
    [key |-> key, eq |-> assign, value |-> value, comma |-> comma]

\* The kind extract_token! asks for between a field's key and its value.
FieldMarker == "Equal"

\* The value a field has for `!` and operand expr (an Option).
NotValue(not, expr) == Some(Expr_new("Urnary", ExprUrnary_new(UnOp_new("Not", not), expr)))

\* The Kind::Not arm of TableField::parse, entered with peek() = `!`.
TableField_not(toks, pos) ==
    IF PeekIs(toks, pos + 1, {"Comma"})
    THEN Try(extract_token_opt(toks, pos + 1, "Comma"), LAMBDA comma :
         Ok([value |-> NotValue(toks[pos].tok, None), comma |-> comma.val], comma.pos))
    ELSE Try(Expr_parse(toks, pos + 1), LAMBDA expr :
         Ok([value |-> NotValue(toks[pos].tok, Some(expr.val)), comma |-> None],
            expr.pos))

\* The match on peek() of TableField::parse: the value and the comma.
TableField_value(toks, pos) ==
    IF pos > Len(toks) THEN Err(Eof, pos)
    ELSE IF ~toks[pos].ok THEN Err(LexError(toks[pos].err), pos)
    ELSE IF toks[pos].tok.kind = "Comma"
         THEN Try(extract_token_opt(toks, pos, "Comma"), LAMBDA comma :
              Ok([value |-> None, comma |-> comma.val], comma.pos))
    ELSE IF toks[pos].tok.kind = "Not"
         THEN TableField_not(toks, pos)
    ELSE Try(Expr_parse(toks, pos), LAMBDA expr :
         Try(extract_token_opt(toks, expr.pos, "Comma"), LAMBDA comma :
         Ok([value |-> Some(expr.val), comma |-> comma.val], comma.pos)))

\* TableField::parse, were it to return a field without a key at the end of
\* the stream.
TableField_parse_EmptyAtEnd(toks, pos) ==
    IF pos > Len(toks)
    THEN Ok(TableField_new(Ident_new(<<>>, Span_new(0, 0)), None, None, None), pos)
    ELSE Try(Ident_parse(toks, pos), LAMBDA ident :
         Try(extract_token(toks, ident.pos, {FieldMarker}), LAMBDA assign :
         Try(TableField_value(toks, assign.pos), LAMBDA v :
         Ok(TableField_new(ident.val, assign.val, v.val.value, v.val.comma), v.pos))))

\* TableField<K>::parse with K = Ident, the one key type of a Target's table.
TableField_parse(toks, pos) ==
    Try(Ident_parse(toks, pos), LAMBDA ident :
    Try(extract_token(toks, ident.pos, {FieldMarker}), LAMBDA assign :
    Try(TableField_value(toks, assign.pos), LAMBDA v :
    Ok(TableField_new(ident.val, assign.val, v.val.value, v.val.comma), v.pos))))

Table_new(brackets, fields) == [brackets |-> brackets, fields |-> fields]

Table_span(t) == Span_new(t.brackets[1].span.start, t.brackets[2].span.end)

\* The loop test of Table::parse, were it to demand a comma between fields.
Table_continue_NeedsComma(toks, pos, fields) ==
    IF pos > Len(toks) THEN Err(Eof, pos)
    ELSE IF ~toks[pos].ok THEN Err(LexError(toks[pos].err), pos)
    ELSE IF toks[pos].tok.kind = "RightBracket" THEN Ok(fields, pos)
    ELSE IF IsNone(fields[Len(fields)].comma)
         THEN Err(InvalidToken(toks[pos].tok), pos)
    ELSE Table_fields(toks, pos, fields)

\* The match on peek() that ends an iteration of the loop of Table::parse.
Table_continue(toks, pos, fields) ==
    IF pos > Len(toks) THEN Err(Eof, pos)
    ELSE IF ~toks[pos].ok THEN Err(LexError(toks[pos].err), pos)
    ELSE IF toks[pos].tok.kind = "RightBracket" THEN Ok(fields, pos)
    ELSE Table_fields(toks, pos, fields)

\* The loop of Table::parse: one field, pushed, then the match on peek().
Table_fields(toks, pos, fields) ==
    Try(TableField_parse(toks, pos), LAMBDA field :
    Table_continue(toks, field.pos, Append(fields, field.val)))

Table_parse(toks, pos) ==
    Try(extract_token(toks, pos, {"LeftBracket"}), LAMBDA open :
    Try(Table_fields(toks, open.pos, <<>>), LAMBDA fields :
    Try(extract_token(toks, fields.pos, {"RightBracket"}), LAMBDA close :
    Ok(Table_new(<<open.val, close.val>>, fields.val), close.pos))))

-----------------------------------------------------------------------------
(* Targets and maps.  ast.rs declares the nodes and their spans; their     *)
(* parse procedures are not in it and follow the grammar of the design     *)
(* document: Target is `@` identifier [table], Map is `{` then map fields  *)
(* until `}` in the pattern of Table.                                      *)

ExprTarget_new(select, target, params) ==
    [select |-> select, target |-> target, params |-> params]

ExprTarget_span(t) ==
    Span_new(t.select.span.start,
             IF IsSome(t.params) THEN t.params[1].brackets[2].span.end
             ELSE t.target.span.end)

ExprTarget_parse(toks, pos) ==
    Try(extract_token(toks, pos, {"Selector"}), LAMBDA select :
    Try(Ident_parse(toks, select.pos), LAMBDA target :
    IF ~PeekIs(toks, target.pos, {"LeftBracket"})
    THEN Ok(ExprTarget_new(select.val, target.val, None), target.pos)
    ELSE Try(Table_parse(toks, target.pos), LAMBDA params :
         Ok(ExprTarget_new(select.val, target.val, Some(params.val)), params.pos))))

ExprMapField_new(key, colon, value, comma) ==
    [key |-> key, colon |-> colon, value |-> value, comma |-> comma]

ExprMapField_span(f) ==
    Span_new(f.key.span.start,
             IF IsSome(f.comma) THEN f.comma[1].span.end ELSE Expr_span(f.value).end)

ExprMapField_parse(toks, pos) ==
    Try(LitString_parse(toks, pos), LAMBDA key :
    Try(extract_token(toks, key.pos, {"Colon"}), LAMBDA colon :
    Try(Expr_parse(toks, colon.pos), LAMBDA value :
    Try(extract_token_opt(toks, value.pos, "Comma"), LAMBDA comma :
    Ok(ExprMapField_new(key.val, colon.val, value.val, comma.val), comma.pos)))))

ExprMap_new(curlies, fields) == [curlies |-> curlies, fields |-> fields]

ExprMap_span(m) == Span_new(m.curlies[1].span.start, m.curlies[2].span.start)

ExprMap_continue(toks, pos, fields) ==
    IF pos > Len(toks) THEN Err(Eof, pos)
    ELSE IF ~toks[pos].ok THEN Err(LexError(toks[pos].err), pos)
    ELSE IF toks[pos].tok.kind = "RightBrace" THEN Ok(fields, pos)
    ELSE ExprMap_fields(toks, pos, fields)

ExprMap_fields(toks, pos, fields) ==
    Try(ExprMapField_parse(toks, pos), LAMBDA field :
    ExprMap_continue(toks, field.pos, Append(fields, field.val)))

ExprMap_parse(toks, pos) ==
    Try(extract_token(toks, pos, {"LeftBrace"}), LAMBDA open :
    Try(ExprMap_fields(toks, open.pos, <<>>), LAMBDA fields :
    Try(extract_token(toks, fields.pos, {"RightBrace"}), LAMBDA close :
    Ok(ExprMap_new(<<open.val, close.val>>, fields.val), close.pos))))

-----------------------------------------------------------------------------
(* Expr::parse.  Its body in ast.rs is an empty match on peek(); the       *)
(* dispatch is the one the design document gives: by the kind of the next  *)
(* token, an integer followed by `..` starting a Range.                    *)

LitKinds == {"Float", "Int", "String", "Bool", "Path"}

\* The variant of Expr that starts with the token at pos, "" when none does.
Expr_variant(toks, pos) ==
    LET kind == toks[pos].tok.kind
    IN  CASE kind = "Limit" -> "Range"
          [] kind = "Int" /\ PeekIs(toks, pos + 1, {"Limit"}) -> "Range"
          [] kind \in LitKinds /\ ~(kind = "Int" /\ PeekIs(toks, pos + 1, {"Limit"})) -> "Lit"
          [] kind \in UnOpKinds -> "Urnary"
          [] kind = "LeftBrace" -> "Map"
          [] kind = "Selector" -> "Target"
          [] OTHER -> ""

Expr_dispatch(toks, pos, variant) ==
    CASE variant = "Range"  -> ExprRange_parse(toks, pos)
      [] variant = "Lit"    -> Lit_parse(toks, pos)
      [] variant = "Urnary" -> ExprUrnary_parse(toks, pos)
      [] variant = "Map"    -> ExprMap_parse(toks, pos)
      [] variant = "Target" -> ExprTarget_parse(toks, pos)
      [] OTHER              -> Err(InvalidToken(toks[pos].tok), pos)

Expr_parse(toks, pos) ==
    IF pos > Len(toks) THEN Err(Eof, pos)
    ELSE IF ~toks[pos].ok THEN Err(LexError(toks[pos].err), pos)
    ELSE Try(Expr_dispatch(toks, pos, Expr_variant(toks, pos)),
             LAMBDA e : Ok(Expr_new(Expr_variant(toks, pos), e.val), e.pos))

Expr_span(e) ==
    CASE e.expr = "Lit"    -> Lit_span(e.inner)
      [] e.expr = "Urnary" -> ExprUrnary_span(e.inner)
      [] e.expr = "Range"  -> ExprRange_span(e.inner)
      [] e.expr = "Map"    -> ExprMap_span(e.inner)
      [] e.expr = "Target" -> ExprTarget_span(e.inner)

-----------------------------------------------------------------------------
(* Statements and the program                                              *)

StmtCommand_new(slash, ident, arguments) ==
    [slash |-> slash, ident |-> ident, arguments |-> arguments]

StmtCommand_span(c) ==
    Span_new(IF IsSome(c.slash) THEN c.slash[1].span.start ELSE c.ident.span.start,
             IF IsSome(c.arguments) /\ c.arguments[1] # <<>>
             THEN Expr_span(c.arguments[1][Len(c.arguments[1])]).end
             ELSE c.ident.span.end)

RECURSIVE StmtCommand_arguments(_, _, _)
\* The argument loop of StmtCommand::parse, were it to stop at a line break.
StmtCommand_arguments_StopsAtLineBreak(toks, pos, arguments) ==
    Try(Expr_parse(toks, pos), LAMBDA expr :
    IF expr.pos > Len(toks) \/ PeekIs(toks, expr.pos, {"LineBreak"})
    THEN Ok(Append(arguments, expr.val), expr.pos)
    ELSE StmtCommand_arguments(toks, expr.pos, Append(arguments, expr.val)))

\* The loop of StmtCommand::parse: one expression, pushed, then the test of
\* peek().
StmtCommand_arguments(toks, pos, arguments) ==
    Try(Expr_parse(toks, pos), LAMBDA expr :
    IF expr.pos > Len(toks) THEN Ok(Append(arguments, expr.val), expr.pos)
    ELSE StmtCommand_arguments(toks, expr.pos, Append(arguments, expr.val)))

\* StmtCommand::parse, were it to start the argument list before looking for
\* a first argument.
StmtCommand_parse_EmptyList(toks, pos) ==
    Try(extract_token_opt(toks, pos, "Slash"), LAMBDA slash :
    Try(Ident_parse(toks, slash.pos), LAMBDA ident :
    IF ident.pos > Len(toks)
    THEN Ok(StmtCommand_new(slash.val, ident.val, Some(<<>>)), ident.pos)
    ELSE Try(StmtCommand_arguments(toks, ident.pos, <<>>), LAMBDA arguments :
         Ok(StmtCommand_new(slash.val, ident.val, Some(arguments.val)),
            arguments.pos))))

StmtCommand_parse(toks, pos) ==
    Try(extract_token_opt(toks, pos, "Slash"), LAMBDA slash :
    Try(Ident_parse(toks, slash.pos), LAMBDA ident :
    IF ident.pos > Len(toks)
    THEN Ok(StmtCommand_new(slash.val, ident.val, None), ident.pos)
    ELSE Try(StmtCommand_arguments(toks, ident.pos, <<>>), LAMBDA arguments :
         Ok(StmtCommand_new(slash.val, ident.val, Some(arguments.val)),
            arguments.pos))))

\* enum Stmt: the variant and its payload.
Stmt_new(variant, inner) == [stmt |-> variant, inner |-> inner]

Stmt_span(st) ==
    IF st.stmt = "Command" THEN StmtCommand_span(st.inner) ELSE st.inner.span

\* Stmt::parse, were it to report a lex failure in its lookahead as the end
\* of input.
Stmt_parse_HidesLexError(toks, pos) ==
    IF pos > Len(toks) THEN Err(Eof, pos)
    ELSE IF ~toks[pos].ok THEN Err(Eof, pos)
    ELSE IF toks[pos].tok.kind = "Comment"
         THEN Try(StmtComment_parse(toks, pos),
                  LAMBDA c : Ok(Stmt_new("Comment", c.val), c.pos))
    ELSE Try(StmtCommand_parse(toks, pos),
             LAMBDA c : Ok(Stmt_new("Command", c.val), c.pos))

Stmt_parse(toks, pos) ==
    IF pos > Len(toks) THEN Err(Eof, pos)
    ELSE IF ~toks[pos].ok THEN Err(LexError(toks[pos].err), pos)
    ELSE IF toks[pos].tok.kind = "Comment"
         THEN Try(StmtComment_parse(toks, pos),
                  LAMBDA c : Ok(Stmt_new("Comment", c.val), c.pos))
    ELSE Try(StmtCommand_parse(toks, pos),
             LAMBDA c : Ok(Stmt_new("Command", c.val), c.pos))

Function_new(statements) == [statements |-> statements]

RECURSIVE Function_statements(_, _, _)
\* The loop of Function::parse, were it to take line breaks as separators
\* of statements.
Function_statements_SkipsLineBreak(toks, pos, statements) ==
    IF pos > Len(toks) THEN Ok(statements, pos)
    ELSE IF PeekIs(toks, pos, {"LineBreak"})
         THEN Function_statements(toks, pos + 1, statements)
    ELSE Try(Stmt_parse(toks, pos), LAMBDA statement :
         Function_statements(toks, statement.pos, Append(statements, statement.val)))

\* The while loop of Function::parse.
Function_statements(toks, pos, statements) ==
    IF pos > Len(toks) THEN Ok(statements, pos)
    ELSE Try(Stmt_parse(toks, pos), LAMBDA statement :
         Function_statements(toks, statement.pos, Append(statements, statement.val)))

\* Function::parse, were its loop to parse a statement before testing the
\* stream.
Function_parse_DoWhile(toks, pos) ==
    Try(Stmt_parse(toks, pos), LAMBDA first :
    Try(Function_statements(toks, first.pos, <<first.val>>),
        LAMBDA statements : Ok(Function_new(statements.val), statements.pos)))

Function_parse(toks, pos) ==
    Try(Function_statements(toks, pos, <<>>),
        LAMBDA statements : Ok(Function_new(statements.val), statements.pos))

Function_span(f) ==
    Span_new(IF f.statements # <<>> THEN Stmt_span(f.statements[1]).start ELSE 0,
             IF f.statements # <<>>
             THEN Stmt_span(f.statements[Len(f.statements)]).end ELSE 0)

-----------------------------------------------------------------------------
(* Runs.  A run picks the production it calls, builds a source text by     *)
(* typing words (joined by single spaces) or by loading one whole text of  *)
(* the corpus and typing words after it, and then calls the production on  *)
(* the lexed text.                                                         *)

\* The most words a typed text has.
MaxWords == 3
\* The most words typed after a loaded text.
MaxMore == 1

Words ==
    { <<"/">>, <<"k">>, <<"1">>, <<"\"", "z", "\"">>, <<",">>, <<"!">>,
      <<".", ".">>, <<"=">>, <<"<", ">">>, <<"[">>, <<"]">>, <<"{">>, <<"}">>,
      <<":">>, <<"@">>, <<"~">>, <<"^">>, <<SECT, "r">>, <<"$">>, <<"#", "c">>,
      <<NL>>, <<"1", ".", "5">>, <<"t", "r", "u", "e">>, <<"a", "/", "b">> }

Corpus ==
    { \* /kill
      <<"/", "k", "i", "l", "l">>,
      \* /fill 1 2
      <<"/", "f", "i", "l", "l", " ", "1", " ", "2">>,
      \* # hello
      <<"#", " ", "h", "e", "l", "l", "o">>,
      \* 0..10
      <<"0", ".", ".", "1", "0">>,
      \* 1 .. 5
      <<"1", " ", ".", ".", " ", "5">>,
      \* /cmd !
      <<"/", "c", "m", "d", " ", "!">>,
      \* /cmd , !
      <<"/", "c", "m", "d", " ", ",", " ", "!">>,
      \* /cmd , $
      <<"/", "c", "m", "d", " ", ",", " ", "$">>,
      \* 2147483648 $
      <<"2", "1", "4", "7", "4", "8", "3", "6", "4", "8", " ", "$">>,
      \* /cmd 2147483648 $
      <<"/", "c", "m", "d", " ", "2", "1", "4", "7", "4", "8", "3", "6", "4", "8", " ", "$">>,
      \* two blanks
      <<" ", " ">>,
      \* @e[type="zombie",limit=1]
      <<"@", "e", "[", "t", "y", "p", "e", "=", "\"", "z", "o", "m", "b", "i", "e", "\"",
        ",", "l", "i", "m", "i", "t", "=", "1", "]">>,
      \* [type="zombie",limit=1]
      <<"[", "t", "y", "p", "e", "=", "\"", "z", "o", "m", "b", "i", "e", "\"",
        ",", "l", "i", "m", "i", "t", "=", "1", "]">>,
      \* type="zombie",
      <<"t", "y", "p", "e", "=", "\"", "z", "o", "m", "b", "i", "e", "\"", ",">>,
      \* limit=1]
      <<"l", "i", "m", "i", "t", "=", "1", "]">>,
      \* key<>!,
      <<"k", "e", "y", "<", ">", "!", ",">>,
      \* key<>!]
      <<"k", "e", "y", "<", ">", "!", "]">>,
      \* key<>!5,
      <<"k", "e", "y", "<", ">", "!", "5", ",">>,
      \* [a<>!5,b<>1]
      <<"[", "a", "<", ">", "!", "5", ",", "b", "<", ">", "1", "]">>,
      \* [a=!5,b=1]
      <<"[", "a", "=", "!", "5", ",", "b", "=", "1", "]">>,
      \* {"s":1}
      <<"{", "\"", "s", "\"", ":", "1", "}">>,
      \* /say {"s":1}
      <<"/", "s", "a", "y", " ", "{", "\"", "s", "\"", ":", "1", "}">>,
      \* [k<>1 j<>1]
      <<"[", "k", "<", ">", "1", " ", "j", "<", ">", "1", "]">>,
      \* /tp @e[k<>!,j<>1]
      <<"/", "t", "p", " ", "@", "e", "[", "k", "<", ">", "!", ",", "j", "<", ">", "1", "]">>,
      \* # a (newline) /kill
      <<"#", " ", "a", NL, "/", "k", "i", "l", "l">>,
      \* /tp @e[k<>1] ~1 ^2
      <<"/", "t", "p", " ", "@", "e", "[", "k", "<", ">", "1", "]", " ", "~", "1", " ", "^", "2">>,
      \* /say "é" 1
      <<"/", "s", "a", "y", " ", "\"", "é", "\"", " ", "1">>,
      \* # €1 (a form feed before and after)
      <<"#", "\f", "€", "1", "\f">>,
      \* /say {"s":1 $
      <<"/", "s", "a", "y", " ", "{", "\"", "s", "\"", ":", "1", " ", "$">>,
      \* @e[k<>1]
      <<"@", "e", "[", "k", "<", ">", "1", "]">>,
      \* /tp @e[k<>1]
      <<"/", "t", "p", " ", "@", "e", "[", "k", "<", ">", "1", "]">> }

Entries ==
    {"Function", "StmtCommand", "Expr", "ExprUrnary", "ExprRange", "Table", "TableField"}

RECURSIVE Text(_)
\* The source text of a sequence of words: the words joined by single spaces.
Text(ws) ==
    IF ws = <<>> THEN <<>>
    ELSE IF Len(ws) = 1 THEN ws[1]
    ELSE ws[1] \o <<" ">> \o Text(Tail(ws))

\* The production e called on the tokens of text t.
Parse(e, toks) ==
    CASE e = "Function"    -> Function_parse(toks, 1)
      [] e = "StmtCommand" -> StmtCommand_parse(toks, 1)
      [] e = "Expr"        -> Expr_parse(toks, 1)
      [] e = "ExprUrnary"  -> ExprUrnary_parse(toks, 1)
      [] e = "ExprRange"   -> ExprRange_parse(toks, 1)
      [] e = "Table"       -> Table_parse(toks, 1)
      [] e = "TableField"  -> TableField_parse(toks, 1)

Call(e, t) == Parse(e, Lex(t))

\* Whether the call that gave r ran into the end of toks or accepted it all.
Exhausts(r, toks) == IF r.ok THEN r.pos > Len(toks) ELSE r.err = Eof

\* The lexer is pulled one token at a time and a call stops at its first
\* failure, so text behind the last token a call reads is never looked at.
\* A text is typed on only while the production called on its tokens ts
\* would read on: it ran into the end of the text, or accepted all of it.
ReadsOn(e, ts) == Exhausts(Parse(e, ts), ts)

Init ==
    /\ entry \in Entries
    /\ takesEmpty \in BOOLEAN
    /\ src = <<>>
    /\ tokens = Lex(Text(src))
    /\ out = None

\* How many more words a text of the given words may grow by.
Room(ws) ==
    IF ws # <<>> /\ ws[1] \in Corpus THEN MaxMore - (Len(ws) - 1)
    ELSE MaxWords - Len(ws)

Type ==
    /\ out = None
    /\ Room(src) > 0
    /\ ReadsOn(entry, tokens)
    /\ \E w \in Words : src' = Append(src, w)
    /\ tokens' = Lex(Text(src'))
    /\ UNCHANGED <<entry, takesEmpty, out>>

Load ==
    /\ out = None
    /\ src = <<>>
    /\ \E t \in Corpus : src' = <<t>>
    /\ tokens' = Lex(Text(src'))
    /\ UNCHANGED <<entry, takesEmpty, out>>

Run_Function ==
    /\ entry = "Function"
    /\ out = None
    /\ LET r == Function_parse(tokens, 1)
       IN  out' = Some([res |-> r,
                        span |-> IF r.ok THEN Some(Function_span(r.val)) ELSE None])
    /\ UNCHANGED <<entry, takesEmpty, src, tokens>>

Run_StmtCommand ==
    /\ entry = "StmtCommand"
    /\ out = None
    /\ LET r == StmtCommand_parse(tokens, 1)
       IN  out' = Some([res |-> r,
                        span |-> IF r.ok THEN Some(StmtCommand_span(r.val)) ELSE None])
    /\ UNCHANGED <<entry, takesEmpty, src, tokens>>

Run_Expr ==
    /\ entry = "Expr"
    /\ out = None
    /\ LET r == Expr_parse(tokens, 1)
       IN  out' = Some([res |-> r,
                        span |-> IF r.ok THEN Some(Expr_span(r.val)) ELSE None])
    /\ UNCHANGED <<entry, takesEmpty, src, tokens>>

Run_ExprUrnary ==
    /\ entry = "ExprUrnary"
    /\ out = None
    /\ LET r == ExprUrnary_parse(tokens, 1)
       IN  out' = Some([res |-> r,
                        span |-> IF r.ok THEN Some(ExprUrnary_span(r.val)) ELSE None])
    /\ UNCHANGED <<entry, takesEmpty, src, tokens>>

Run_ExprRange ==
    /\ entry = "ExprRange"
    /\ out = None
    /\ LET r == ExprRange_parse(tokens, 1)
       IN  out' = Some([res |-> r,
                        span |-> IF r.ok THEN Some(ExprRange_span(r.val)) ELSE None])
    /\ UNCHANGED <<entry, takesEmpty, src, tokens>>

Run_Table ==
    /\ entry = "Table"
    /\ out = None
    /\ LET r == Table_parse(tokens, 1)
       IN  out' = Some([res |-> r,
                        span |-> IF r.ok THEN Some(Table_span(r.val)) ELSE None])
    /\ UNCHANGED <<entry, takesEmpty, src, tokens>>

\* TableField has no span().
Run_TableField ==
    /\ entry = "TableField"
    /\ out = None
    /\ out' = Some([res |-> TableField_parse(tokens, 1), span |-> None])
    /\ UNCHANGED <<entry, takesEmpty, src, tokens>>

Next ==
    \/ Type
    \/ Load
    \/ Run_Function
    \/ Run_StmtCommand
    \/ Run_Expr
    \/ Run_ExprUrnary
    \/ Run_ExprRange
    \/ Run_Table
    \/ Run_TableField

Spec == Init /\ [][Next]_vars

-----------------------------------------------------------------------------
(* Properties of the parse results                                         *)

Done == IsSome(out)
Res == out[1].res
Toks == tokens

\* The kind of every item of toks, "LexError" for a lex failure.
KindsOf(toks) ==
    [i \in 1..Len(toks) |-> IF toks[i].ok THEN toks[i].tok.kind ELSE "LexError"]

\* Whether toks starts with tokens of the kinds ks.
StartsWith(toks, ks) ==
    /\ Len(toks) >= Len(ks)
    /\ \A i \in 1..Len(ks) : KindsOf(toks)[i] = ks[i]

KindAt(toks, i) == IF i <= Len(toks) THEN KindsOf(toks)[i] ELSE "None"

\* The kind of the token the lexer produces for the single character `=`.
AssignKind == KindsOf(Lex(<<"=">>))[1]

\* The keys of a table's fields, in order.
KeysOf(fields) == [i \in 1..Len(fields) |-> fields[i].key.value]

\* C1: TableField::parse accepts key `=` value, `=` being the token the lexer
\* produces for that character: for a key, `=`, a string or integer literal
\* the field has that key and that literal as its value, a comma right after
\* the value is consumed as the trailing comma and any other token is left
\* alone; and a table of two such fields parses to these two fields in order.
C1_FieldAcceptsAssign ==
    /\ ( /\ entry = "TableField"
         /\ Done
         /\ StartsWith(Toks, <<"Ident", AssignKind>>)
         /\ KindAt(Toks, 3) \in {"String", "Int"} )
       => /\ Res.ok
          /\ Res.val.key.value = Toks[1].tok.text
          /\ IsSome(Res.val.value)
          /\ Res.val.value[1].expr = "Lit"
          /\ Res.val.value[1].inner.lit = KindAt(Toks, 3)
          /\ Res.val.value[1].inner.inner.span = Toks[3].tok.span
          /\ IF KindAt(Toks, 4) = "Comma"
             THEN Res.val.comma = Some(Toks[4].tok) /\ Res.pos = 5
             ELSE Res.val.comma = None /\ Res.pos = 4
    /\ ( /\ entry = "Table"
         /\ Done
         /\ KindsOf(Toks) = <<"LeftBracket", "Ident", AssignKind, "String", "Comma",
                              "Ident", AssignKind, "Int", "RightBracket">> )
       => /\ Res.ok
          /\ KeysOf(Res.val.fields) = <<Toks[2].tok.text, Toks[6].tok.text>>

\* Where the `..` of a range text stands: after the start bound, if any.
LimitAt(toks) == IF KindAt(toks, 1) = "Int" THEN 2 ELSE 1

\* The value of an optional integer literal.
ValueOf(optInt) == IF IsSome(optInt) THEN Some(optInt[1].value) ELSE None

\* C2: ExprRange::parse succeeds for every combination of present and absent
\* integer bounds around `..`, also when `..` is the last token, and start
\* and end are exactly the integers present.
C2_RangeEveryCombination ==
    ( /\ entry = "ExprRange"
      /\ Done
      /\ KindAt(Toks, LimitAt(Toks)) = "Limit"
      /\ KindAt(Toks, LimitAt(Toks) + 1) # "LexError" )
    => /\ Res.ok
       /\ ValueOf(Res.val.start) =
            IF LimitAt(Toks) = 2 THEN Some(Toks[1].tok.num) ELSE None
       /\ ValueOf(Res.val.end) =
            IF KindAt(Toks, LimitAt(Toks) + 1) = "Int"
            THEN Some(Toks[LimitAt(Toks) + 1].tok.num) ELSE None

\* C3: in TableField::parse, `!` right after the marker and a comma or `]`
\* right after the `!` give the value UnaryOp(not, absent operand), and the
\* field parses.
C3_BareNegationFlag ==
    ( /\ entry = "TableField"
      /\ Done
      /\ StartsWith(Toks, <<"Ident", FieldMarker, "Not">>)
      /\ KindAt(Toks, 4) \in {"Comma", "RightBracket"} )
    => /\ Res.ok
       /\ Res.val.value = NotValue(Toks[3].tok, None)

\* C4: in TableField::parse, `!` followed by an expression gives the value
\* UnaryOp(not, that expression), and a comma right after the expression is
\* consumed and recorded as the field's trailing comma; so a table of such a
\* field, a comma and a second field parses to two fields.
C4_NegatedValueComma ==
    /\ ( /\ entry = "TableField"
         /\ Done
         /\ StartsWith(Toks, <<"Ident", FieldMarker, "Not">>)
         /\ Expr_parse(Toks, 4).ok
         /\ KindAt(Toks, Expr_parse(Toks, 4).pos) = "Comma" )
       => /\ Res.ok
          /\ Res.val.value = NotValue(Toks[3].tok, Some(Expr_parse(Toks, 4).val))
          /\ Res.val.comma = Some(Toks[Expr_parse(Toks, 4).pos].tok)
          /\ Res.pos = Expr_parse(Toks, 4).pos + 1
    /\ ( /\ entry = "Table"
         /\ Done
         /\ KindsOf(Toks) = <<"LeftBracket", "Ident", FieldMarker, "Not", "Int", "Comma",
                              "Ident", FieldMarker, "Int", "RightBracket">> )
       => /\ Res.ok
          /\ Len(Res.val.fields) = 2

\* C5: in TableField::parse the value is absent whenever the token right
\* after the marker is a comma or `]`; the comma is consumed as the trailing
\* comma, the `]` is left in the stream.
C5_FlagField ==
    ( /\ entry = "TableField"
      /\ Done
      /\ StartsWith(Toks, <<"Ident", FieldMarker>>)
      /\ KindAt(Toks, 3) \in {"Comma", "RightBracket"} )
    => /\ Res.ok
       /\ Res.val.value = None
       /\ IF KindAt(Toks, 3) = "Comma"
          THEN Res.val.comma = Some(Toks[3].tok) /\ Res.pos = 4
          ELSE Res.val.comma = None /\ Res.pos = 3

\* The commands among the statements of a parsed program.
CommandsOf(f) ==
    {f.statements[i].inner : i \in {j \in 1..Len(f.statements) :
                                       f.statements[j].stmt = "Command"}}

\* The commands the run returned: the command itself, or the program's.
Commands ==
    IF ~Done \/ ~Res.ok THEN {}
    ELSE IF entry = "StmtCommand" THEN {Res.val}
    ELSE IF entry = "Function" THEN CommandsOf(Res.val)
    ELSE {}

\* C6: the arguments of a command StmtCommand::parse returns are absent
\* exactly when the stream was exhausted right after the name, and otherwise
\* hold at least one expression: never present and empty.
C6_ArgumentsAbsentOrNonEmpty ==
    \A c \in Commands :
        /\ IsNone(c.arguments) <=> c.ident.span = Toks[Len(Toks)].tok.span
        /\ IsSome(c.arguments) => Len(c.arguments[1]) >= 1

C6_Witness ==
    /\ entry = "StmtCommand"
    /\ Done
    /\ Res.ok
    /\ IsSome(Res.val.slash)
    /\ IsNone(Res.val.arguments)

\* C7: on an empty token stream Function::parse succeeds with no statements,
\* and the span of that program starts and ends at 0.
C7_EmptyProgram ==
    (entry = "Function" /\ Done /\ Toks = <<>>)
    => /\ Res.ok
       /\ Res.val.statements = <<>>
       /\ out[1].span = Some(Span_new(0, 0))

C7_Witness ==
    /\ entry = "Function"
    /\ Done
    /\ src = <<>>
    /\ Res.ok

\* C8: the span of every node runs from the start of its first child to the
\* end of its last child, that is from the start of the first token the node
\* was parsed from to the end of the last; a map's span ends at the end
\* offset of its closing `}`.
C8_SpanCoversChildren ==
    /\ (Done /\ Res.ok /\ IsSome(out[1].span) /\ Res.pos > 1)
       => out[1].span = Some(Span_new(Toks[1].tok.span.start,
                                      Toks[Res.pos - 1].tok.span.end))
    /\ (entry = "Expr" /\ Done /\ Res.ok /\ Res.val.expr = "Map")
       => out[1].span[1].end = Res.val.inner.curlies[2].span.end

\* Whether the last item of toks is a prefix operator.
EndsWithPrefixOp(toks) ==
    /\ toks # <<>>
    /\ KindAt(toks, Len(toks)) \in UnOpKinds

Prefix(toks, n) == SubSeq(toks, 1, n)

\* C9 as stated: every input whose last token is a prefix operator fails with
\* ParseError::Eof.
C9_AlwaysEof ==
    (entry = "Function" /\ Done /\ EndsWithPrefixOp(Toks))
    => ~Res.ok /\ Res.err = Eof

\* C9: an input whose last token is a prefix operator never parses. The
\* failure is ParseError::Eof when the tokens before the operator parse as a
\* command; when a token before the operator is rejected it is that token's
\* failure; otherwise it is Eof, or InvalidToken for the operator itself
\* where no expression may start. ExprUrnary::parse returns Eof on an
\* operator that ends the stream, and never a UnaryOp with absent operand.
C9_DanglingOperator ==
    /\ (entry = "Function" /\ Done /\ EndsWithPrefixOp(Toks))
       => /\ ~Res.ok
          /\ IF Exhausts(Function_parse(Prefix(Toks, Len(Toks) - 1), 1),
                         Prefix(Toks, Len(Toks) - 1))
             THEN \/ Res.err = Eof
                  \/ /\ Res.err = InvalidToken(Toks[Len(Toks)].tok)
                     /\ ~Function_parse(Prefix(Toks, Len(Toks) - 1), 1).ok
                  \/ /\ Res.err = InvalidToken(Toks[Len(Toks)].tok)
                     /\ Len(Toks) = 1
             ELSE Res.err = Function_parse(Prefix(Toks, Len(Toks) - 1), 1).err
    /\ (entry = "ExprUrnary" /\ Done)
       => /\ Res.ok => IsSome(Res.val.expr)
          /\ (Len(Toks) = 1 /\ EndsWithPrefixOp(Toks)) => Res = Err(Eof, 2)

C9_Witness ==
    /\ entry = "Function"
    /\ Done
    /\ Len(Toks) >= 2
    /\ EndsWithPrefixOp(Toks)
    /\ Res = Err(Eof, Len(Toks) + 1)

\* Whether the item at place i of toks is the lexer's error for a character
\* no pattern matches.
UnknownAt(toks, i) == ~toks[i].ok /\ toks[i].err.err = "Unknown"

HasUnknown(toks) == \E i \in 1..Len(toks) : UnknownAt(toks, i)

HasLexError(toks) == \E i \in 1..Len(toks) : ~toks[i].ok

\* The place of the first error of kind Unknown in toks, 0 if there is none.
FirstUnknown(toks) ==
    IF ~HasUnknown(toks) THEN 0
    ELSE CHOOSE i \in 1..Len(toks) :
            /\ UnknownAt(toks, i)
            /\ \A j \in 1..(i - 1) : ~UnknownAt(toks, j)

\* The place of the first lexing error of either kind in toks, 0 if there is
\* none.
FirstLexError(toks) ==
    IF ~HasLexError(toks) THEN 0
    ELSE CHOOSE i \in 1..Len(toks) :
            /\ ~toks[i].ok
            /\ \A j \in 1..(i - 1) : toks[j].ok

\* C10 as stated: every input in which the lexer reports an unmatched
\* character fails with the LexError of kind Unknown of that character.
C10_AlwaysLexError ==
    (entry = "Function" /\ Done /\ HasUnknown(Toks))
    => /\ ~Res.ok
       /\ Res.err = LexError(Toks[FirstUnknown(Toks)].err)

\* C10: an input for which the lexer reports a lexing error (Unknown for a
\* character no pattern matches, InvalidInt for an integer beyond i32) never
\* parses, and Function::parse returns the first failure in the order of
\* the stream. When a token before the first lexing error is rejected, that
\* is the token's InvalidToken. When they are all accepted, it is
\* ParseError::LexError carrying the first lexing error unchanged: the kind
\* Unknown and the character's span when the unmatched character comes
\* first, the kind InvalidInt and the numeral's span when an overflowing
\* integer precedes it.
C10_FirstFailure ==
    (entry = "Function" /\ Done /\ HasLexError(Toks))
    => /\ ~Res.ok
       /\ IF Exhausts(Function_parse(Prefix(Toks, FirstLexError(Toks) - 1), 1),
                      Prefix(Toks, FirstLexError(Toks) - 1))
          THEN /\ Res.err = LexError(Toks[FirstLexError(Toks)].err)
               /\ Res.err.err.span.end > Res.err.err.span.start
               /\ IF FirstLexError(Toks) = FirstUnknown(Toks)
                  THEN Res.err.err.err = "Unknown"
                  ELSE Res.err.err.err = "InvalidInt"
          ELSE /\ Res.err = Function_parse(Prefix(Toks, FirstLexError(Toks) - 1), 1).err
               /\ Res.err.type = "InvalidToken"

C10_Witness ==
    /\ entry = "Function"
    /\ Done
    /\ Len(Toks) >= 2
    /\ UnknownAt(Toks, Len(Toks))
    /\ FirstLexError(Toks) = Len(Toks)
    /\ ~Res.ok
    /\ Res.err = LexError(Toks[Len(Toks)].err)

\* An overflowing integer before the unmatched character is the failure
\* Function::parse returns.
C10_InvalidIntFirst ==
    /\ entry = "Function"
    /\ Done
    /\ HasUnknown(Toks)
    /\ FirstLexError(Toks) < FirstUnknown(Toks)
    /\ Res.err = LexError(Toks[FirstLexError(Toks)].err)
    /\ Res.err.err.err = "InvalidInt"

\* A stream that never ends is never read to the end of what holds it.
UnendingNeverExhausted ==
    (Done /\ Stays(Toks)) => ~Exhausts(Res, Toks) /\ Res.pos <= Len(Toks)

\* Whether the result r of a production called at place p of toks, if a
\* success, has moved past p.
Advances(toks, p, r) == r.ok => r.pos > p /\ r.pos <= Len(toks) + 1

\* Whether the expression parsed after the token at place p starts after it.
StartsAfter(toks, p, e) == Expr_span(e).start >= toks[p].tok.span.end

\* The results of the statement, the expression, the table field and the
\* unary operation parsed at place p of toks: each consumes or fails, and
\* an operand or a field value starts after its operator or marker.
ConsumesAt(toks, p, stmt, expr, field, unary) ==
    /\ Advances(toks, p, stmt)
    /\ Advances(toks, p, expr)
    /\ Advances(toks, p, field)
    /\ unary.ok => StartsAfter(toks, p, unary.val.expr[1])
    /\ (field.ok /\ IsSome(field.val.value))
       => StartsAfter(toks, p + 1, field.val.value[1])

EveryStepConsumes(toks) ==
    \A p \in 1..(Len(toks) + 1) :
        ConsumesAt(toks, p, Stmt_parse(toks, p), Expr_parse(toks, p),
                   TableField_parse(toks, p), ExprUrnary_parse(toks, p))

\* C11: Function::parse terminates on every finite token stream. At every
\* place of the stream a statement, an expression and a table field either
\* fail or consume at least one token, so every iteration of the statement
\* loop, of the argument loop and of the field loop moves on; and the
\* expression a unary operator or a field marker is followed by is parsed
\* from the tokens after that operator or marker.
C11_EveryStepConsumes ==
    (entry = "Function" /\ Done)
    => /\ Advances(Toks, 0, Res)
       /\ EveryStepConsumes(Toks)

C11_Witness ==
    /\ entry = "Function"
    /\ Done
    /\ Res.ok
    /\ Len(Toks) >= 3
    /\ \E p \in 1..Len(Toks) : TableField_parse(Toks, p).ok
    /\ \E p \in 1..Len(Toks) : ExprUrnary_parse(Toks, p).ok

\* The numbers of the integer tokens of toks, in order.
IntsOf(toks) ==
    [i \in 1..Len(SelectSeq(toks, LAMBDA t : t.ok /\ t.tok.kind = "Int"))
       |-> SelectSeq(toks, LAMBDA t : t.ok /\ t.tok.kind = "Int")[i].tok.num]

\* C12: the source text `0..10` is tokenized as Int(0), Limit, Int(10), and
\* as a standalone expression it parses to a Range with start 0 and end 10.
C12_RangeTextLexesAsRange ==
    (Done /\ Text(src) = <<"0", ".", ".", "1", "0">>)
    => /\ KindsOf(Toks) = <<"Int", "Limit", "Int">>
       /\ IntsOf(Toks) = <<0, 10>>
       /\ entry \in {"Expr", "ExprRange"} => Res.ok
       /\ entry = "ExprRange"
          => ValueOf(Res.val.start) = Some(0) /\ ValueOf(Res.val.end) = Some(10)
       /\ entry = "Expr"
          => /\ Res.val.expr = "Range"
             /\ ValueOf(Res.val.inner.start) = Some(0)
             /\ ValueOf(Res.val.inner.end) = Some(10)

\* The operator the documentation of UnOp gives for a written character.
UnOpOf(c) ==
    CASE c = <<"!">> -> "Not"
      [] c = <<"~">> -> "LocalCoordinate"
      [] c = <<"^">> -> "RelativeCoordinate"
      [] OTHER -> "FormatSelection"

\* C13: the operator of a UnaryOp is the one of the character written: `~`
\* gives local-coordinate, `^` relative-coordinate, `!` not.
C13_OperatorOfCharacter ==
    (entry = "ExprUrnary" /\ Done /\ Res.ok)
    => Res.val.op.op = UnOpOf(SubSeq(Toks[1].tok.text, 1, 1))

RECURSIVE OperandsPresent(_, _)
\* Whether every UnaryOp of the expression e with an absent operand is a
\* `not` that is the direct value of a table field; flag says e is such a
\* direct value.
OperandsPresent(e, flag) ==
    CASE e.expr = "Urnary" ->
            IF IsNone(e.inner.expr) THEN flag /\ e.inner.op.op = "Not"
            ELSE OperandsPresent(e.inner.expr[1], FALSE)
      [] e.expr = "Map" ->
            \A i \in 1..Len(e.inner.fields) :
                OperandsPresent(e.inner.fields[i].value, FALSE)
      [] e.expr = "Target" ->
            IsSome(e.inner.params) =>
                \A i \in 1..Len(e.inner.params[1].fields) :
                    IsSome(e.inner.params[1].fields[i].value) =>
                        OperandsPresent(e.inner.params[1].fields[i].value[1], TRUE)
      [] OTHER -> TRUE

\* The expressions the run returned, each with whether it is the direct
\* value of a table field.
Expressions ==
    IF ~Done \/ ~Res.ok THEN {}
    ELSE IF entry \in {"Function", "StmtCommand"}
         THEN UNION {{<<c.arguments[1][i], FALSE>> : i \in 1..Len(c.arguments[1])} :
                     c \in {d \in Commands : IsSome(d.arguments)}}
    ELSE IF entry = "Expr" THEN {<<Res.val, FALSE>>}
    ELSE IF entry = "ExprUrnary" THEN {<<Expr_new("Urnary", Res.val), FALSE>>}
    ELSE IF entry = "Table"
         THEN {<<Res.val.fields[i].value[1], TRUE>> :
                 i \in {j \in 1..Len(Res.val.fields) : IsSome(Res.val.fields[j].value)}}
    ELSE IF entry = "TableField" /\ IsSome(Res.val.value)
         THEN {<<Res.val.value[1], TRUE>>}
    ELSE {}

\* C14: in every parsed tree a UnaryOp has an absent operand only if its
\* operator is `not` and it is the direct value of a table field; the
\* UnaryOp ExprUrnary::parse returns has its operand.
C14_AbsentOperandOnlyInField ==
    /\ \A x \in Expressions : OperandsPresent(x[1], x[2])
    /\ (entry = "ExprUrnary" /\ Done /\ Res.ok) => IsSome(Res.val.expr)

C14_Witness ==
    /\ entry = "Function"
    /\ Done
    /\ Res.ok
    /\ \E x \in Expressions :
        /\ x[1].expr = "Target"
        /\ IsSome(x[1].inner.params)
        /\ \E i \in 1..Len(x[1].inner.params[1].fields) :
             /\ IsSome(x[1].inner.params[1].fields[i].value)
             /\ x[1].inner.params[1].fields[i].value[1].expr = "Urnary"
             /\ x[1].inner.params[1].fields[i].value[1].inner.op.op = "Not"
             /\ IsNone(x[1].inner.params[1].fields[i].value[1].inner.expr)

\* C15: Table::parse consumes `[`, one or more fields until the lookahead
\* after a field is `]`, then `]`. Two fields with no comma between them are
\* accepted; `[` followed at once by `]` fails with InvalidToken; and every
\* proper prefix of a table fails with Eof.
C15_TableLoop ==
    (entry = "Table" /\ Done)
    => /\ Res.ok
          => /\ Len(Res.val.fields) >= 1
             /\ Res.val.brackets = <<Toks[1].tok, Toks[Res.pos - 1].tok>>
             /\ KindAt(Toks, 1) = "LeftBracket"
             /\ KindAt(Toks, Res.pos - 1) = "RightBracket"
             /\ \A n \in 0..(Res.pos - 2) :
                  /\ ~Table_parse(Prefix(Toks, n), 1).ok
                  /\ Table_parse(Prefix(Toks, n), 1).err = Eof
       /\ KindsOf(Toks) = <<"LeftBracket", "Ident", FieldMarker, "Int",
                            "Ident", FieldMarker, "Int", "RightBracket">>
          => /\ Res.ok
             /\ KeysOf(Res.val.fields) = <<Toks[2].tok.text, Toks[5].tok.text>>
             /\ Res.val.fields[1].comma = None
       /\ StartsWith(Toks, <<"LeftBracket", "RightBracket">>)
          => /\ ~Res.ok
             /\ Res.err = InvalidToken(Toks[2].tok)

C15_Witness ==
    /\ entry = "Table"
    /\ Done
    /\ Res.ok
    /\ Len(Res.val.fields) = 2
    /\ Res.val.fields[1].comma = None

\* C16: when StmtCommand::parse succeeds the stream is exhausted, so a parsed
\* program holds at most one command and it is the last statement; the
\* tokens after the command's name up to the end of the input are its
\* arguments.
C16_CommandTakesTheRest ==
    /\ (entry = "StmtCommand" /\ Done /\ Res.ok) => Res.pos = Len(Toks) + 1
    /\ (entry = "Function" /\ Done /\ Res.ok)
       => /\ Cardinality(CommandsOf(Res.val)) <= 1
          /\ \A i \in 1..Len(Res.val.statements) :
               Res.val.statements[i].stmt = "Command" => i = Len(Res.val.statements)
    /\ \A c \in Commands :
         /\ \A i \in 1..Len(Toks) :
              Toks[i].tok.span.start >= c.ident.span.end => IsSome(c.arguments)
         /\ IsSome(c.arguments)
            => /\ \E i \in 1..Len(Toks) :
                    /\ Toks[i].tok.span = c.ident.span
                    /\ Expr_span(c.arguments[1][1]).start = Toks[i + 1].tok.span.start
               /\ Expr_span(c.arguments[1][Len(c.arguments[1])]).start
                    <= Toks[Len(Toks)].tok.span.start

C16_Witness ==
    /\ entry = "Function"
    /\ Done
    /\ Res.ok
    /\ \E c \in Commands : IsSome(c.arguments) /\ Len(c.arguments[1]) = 2

\* The place of the first line break token in toks, 0 if there is none.
FirstLineBreak(toks) ==
    IF \A i \in 1..Len(toks) : KindAt(toks, i) # "LineBreak" THEN 0
    ELSE CHOOSE i \in 1..Len(toks) :
            /\ KindAt(toks, i) = "LineBreak"
            /\ \A j \in 1..(i - 1) : KindAt(toks, j) # "LineBreak"

\* C17: no production accepts a LineBreak token: Function::parse fails on
\* every token stream that holds one, with InvalidToken of the line break
\* when the tokens before it are accepted, so no parsed program has
\* statements on more than one line.
C17_LineBreakRejected ==
    (entry = "Function" /\ Done /\ FirstLineBreak(Toks) > 0)
    => /\ ~Res.ok
       /\ Exhausts(Function_parse(Prefix(Toks, FirstLineBreak(Toks) - 1), 1),
                   Prefix(Toks, FirstLineBreak(Toks) - 1))
          => Res.err = InvalidToken(Toks[FirstLineBreak(Toks)].tok)

C17_Witness ==
    /\ entry = "Function"
    /\ Done
    /\ FirstLineBreak(Toks) > 1
    /\ Len(Toks) > FirstLineBreak(Toks)
    /\ Res.err = InvalidToken(Toks[FirstLineBreak(Toks)].tok)

====
